---- MODULE Spec2Model ----
(***************************************************************************)
(* Quotebox (src/app.js): an express application over two Sequelize        *)
(* tables, Users and Quotes, with an express-session store.                *)
(*                                                                         *)
(* Every route handler is one action: it reads req.session, passes the     *)
(* requireLogin guard, makes its one persistence call and answers.  POST   *)
(* /login is two actions, LoginFind (up to the await of User.findOne) and  *)
(* LoginFinish (User.create, req.session.save and the answer), so that     *)
(* other requests run between its lookup and its writes.  One login per    *)
(* cookie is in flight at a time.                                          *)
(*                                                                         *)
(* Sequelize as the code uses it: allowNull: false rejects null and        *)
(* undefined and accepts the empty string; Model.update drops undefined    *)
(* values and validates the others before it runs the query; unique: true  *)
(* makes the second insert of a username fail; rows with the same          *)
(* createdAt come back from ORDER BY createdAt DESC in either order.       *)
(* express-session: destroy() removes the session of the cookie from the   *)
(* store, save() writes the request's own session object under its id.     *)
(* The database is reachable: a persistence call fails only by validation  *)
(* or by the unique index.  The session store may fail a save.             *)
(***************************************************************************)
EXTENDS Integers, Sequences, FiniteSets, TLC

\* ------------------------------------------------------------------ bounds
\* Quote.create succeeds at most MaxQuotes times in a behaviour of Spec and of
\* SpecBodies, and at most MaxListed times in a behaviour of SpecQuotes.
MaxQuotes == 1
MaxListed == 2

\* Session cookies (express-session ids) of the clients.
Tokens == {"s1", "s2"}

\* null, and undefined: the value of a field the request body does not carry.
Null == "<null>"
Absent == "<undefined>"

\* req.body.username values.
Usernames == {"alice", "bob"}

\* ------------------------------------------------------------------ state
VARIABLES
    Users,        \* table Users: sequence of usernames, a row's id is its index
    Quotes,       \* table Quotes: set of rows
    nextQuoteId,  \* AUTOINCREMENT counter of Quotes.id
    now,          \* the clock new Date() reads
    sessions,     \* session store: token -> [userId, username]
    login,        \* POST /login requests between findOne and create
    creator,      \* history: quote id -> userId of the session that created it
    loggedOut,    \* history: GET /logout handled and no POST /login issued since
    resp          \* the response (or pending state) of the step just taken

vars == <<Users, Quotes, nextQuoteId, now, sessions, login, creator, loggedOut, resp>>

\* req.session of a request that carries no login.
NoSession == [userId |-> 0, username |-> ""]

NoLogin == [pc |-> "idle", username |-> "", user |-> 0]

\* Request bodies of POST /add-quote and POST /quotes/:id/edit.
Body(t, p, l, d) == [quoteText |-> t, personName |-> p, location |-> l, date |-> d]

\* A request without a body (a GET, or a POST with no field).
NoBody == Body(Absent, Absent, Absent, Absent)

Bodies ==
    { Body("Hi", "Bob", "NYC", "May"),
      Body("Hi!", "Bob", "", Absent),
      Body("", "Bob", "NYC", "May"),
      Body("Hi", "", "NYC", "May"),
      Body(Null, "Bob", "NYC", "May"),
      Body("Hi", Null, "NYC", "May"),
      NoBody }

\* req.params.id values: every id a table of max rows can hold and one it
\* never holds.
Ids(max) == 1..(max + 1)

\* ---------------------------------------------------------------- helpers
\* location || null, date || null
OrNull(v) == IF v \in {Absent, Null, ""} THEN Null ELSE v

\* allowNull: false: Sequelize's notNull validation of one value of a new row.
\* The empty string is a value: it passes.
NotNullViolation(v) == v \in {Null, Absent}

\* Quote.create(values) throws a validation error.
CreateRejected(body) ==
    NotNullViolation(body.quoteText) \/ NotNullViolation(body.personName)

\* Quote.update(values, ...) throws a validation error: update drops the
\* undefined values and validates the others.
UpdateRejected(body) == body.quoteText = Null \/ body.personName = Null

\* Faulty variant: the row is inserted before it is validated.
QuoteCreate_InsertFirst(row, body) == Quotes \cup {row}

\* The table after Quote.create(row): a rejected row is not inserted.
QuoteCreate(row, body) == IF CreateRejected(body) THEN Quotes ELSE Quotes \cup {row}

\* User.findOne({ where: { username } }): the id of the row, 0 when none.
UserFindOne(username) ==
    IF \E i \in 1..Len(Users) : Users[i] = username
    THEN CHOOSE i \in 1..Len(Users) : Users[i] = username
    ELSE 0

\* Faulty variant: no unique index on username.
UniqueViolation_Off(username) == FALSE

\* unique: true on User.username
UniqueViolation(username) == \E i \in 1..Len(Users) : Users[i] = username

\* Faulty variant: findAll without the where clause.
QuoteFindAll_Unscoped(userId) == Quotes

\* Quote.findAll({ where: { UserId } })
QuoteFindAll(userId) == {q \in Quotes : q.UserId = userId}

\* Faulty variant: the where clause selects by id alone.
Owned_AnyOwner(id, userId) == {q \in Quotes : q.id = id}

\* where: { id: req.params.id, UserId: req.session.userId }
Owned(id, userId) == {q \in Quotes : q.id = id /\ q.UserId = userId}

\* Faulty variant: ascending instead of descending.
OrderedDesc_Asc(rows) ==
    { s \in [1..Cardinality(rows) -> rows] :
        /\ \A i, j \in 1..Cardinality(rows) : i # j => s[i] # s[j]
        /\ \A i, j \in 1..Cardinality(rows) : i < j => s[i].createdAt <= s[j].createdAt }

\* order: [['createdAt', 'DESC']]: the orders the database may return.
OrderedDesc(rows) ==
    { s \in [1..Cardinality(rows) -> rows] :
        /\ \A i, j \in 1..Cardinality(rows) : i # j => s[i] # s[j]
        /\ \A i, j \in 1..Cardinality(rows) : i < j => s[i].createdAt >= s[j].createdAt }

\* JSON.stringify(quotes): an object per row, with every column of the row.
Stringify(rows) ==
    { [id |-> q.id, quoteText |-> q.quoteText, personName |-> q.personName,
       location |-> q.location, date |-> q.date, UserId |-> q.UserId,
       createdAt |-> q.createdAt] : q \in rows }

\* What a step answers: the request (route, session cookie, :id, body), the
\* status or redirect, the text sent, the data handed to the view and the
\* persistence calls made.
Response(route, t, id, status, send) ==
    [route |-> route, tok |-> t, id |-> id, username |-> "", body |-> NoBody,
     status |-> status, send |-> send,
     error |-> "", quotes |-> <<>>, quotesJSON |-> {}, db |-> {}]

\* Faulty variant: the quiz is offered from one quote on.
NotEnough_One(quotes) == Cardinality(quotes) < 1

\* if (quotes.length < 2)
NotEnough(quotes) == Cardinality(quotes) < 2

\* Faulty variant: the guard lets every request through.
requireLogin_Off(t) == TRUE

\* function requireLogin(req, res, next)
requireLogin(t) == sessions[t].userId # 0

Redirected(route, t, id) ==
    /\ resp' = Response(route, t, id, "redirect /", "")
    /\ UNCHANGED <<Users, Quotes, nextQuoteId, now, sessions, login, creator, loggedOut>>

\* ------------------------------------------------------------------ Init
Init ==
    /\ Users = <<>>
    /\ Quotes = {}
    /\ nextQuoteId = 1
    /\ now = 0
    /\ sessions = [t \in Tokens |-> NoSession]
    /\ login = [t \in Tokens |-> NoLogin]
    /\ creator = <<>>
    /\ loggedOut = [t \in Tokens |-> FALSE]
    /\ resp = Response("", "", 0, "", "")

\* --------------------------------------------------------------- actions
\* app.get('/')
Landing(t) ==
    /\ resp' = IF sessions[t].userId # 0
               THEN Response("GET /", t, 0, "redirect /home", "")
               ELSE Response("GET /", t, 0, "render landing", "")
    /\ UNCHANGED <<Users, Quotes, nextQuoteId, now, sessions, login, creator, loggedOut>>

\* app.post('/login'): up to the await of User.findOne
LoginFind(t, username) ==
    /\ login[t].pc = "idle"
    /\ loggedOut' = [loggedOut EXCEPT ![t] = FALSE]
    /\ IF username = Absent
       THEN \* where: { username: undefined } throws; caught, status 500
            /\ resp' = [Response("POST /login", t, 0, "500", "Error logging in")
                          EXCEPT !.username = username, !.db = {"User.findOne"}]
            /\ UNCHANGED login
       ELSE /\ login' = [login EXCEPT ![t] =
                           [pc |-> "found", username |-> username,
                            user |-> UserFindOne(username)]]
            /\ resp' = [Response("POST /login", t, 0, "pending", "")
                          EXCEPT !.username = username, !.db = {"User.findOne"}]
    /\ UNCHANGED <<Users, Quotes, nextQuoteId, now, sessions, creator>>

\* app.post('/login'): from if (!user) to the response; err is the session
\* store's answer to req.session.save
LoginFinish(t, err) ==
    /\ login[t].pc = "found"
    /\ login' = [login EXCEPT ![t] = NoLogin]
    /\ LET username == login[t].username
           create == login[t].user = 0
           failed == create /\ (NotNullViolation(username) \/ UniqueViolation(username))
           userId == IF create THEN Len(Users) + 1 ELSE login[t].user
       IN  IF failed
           THEN /\ resp' = [Response("POST /login", t, 0, "500", "Error logging in")
                              EXCEPT !.username = username, !.db = {"User.create"}]
                /\ UNCHANGED <<Users, sessions>>
           ELSE /\ Users' = IF create THEN Append(Users, username) ELSE Users
                /\ IF err
                   THEN /\ resp' = [Response("POST /login", t, 0, "500", "Session error")
                                      EXCEPT !.username = username,
                                             !.db = IF create THEN {"User.create"} ELSE {}]
                        /\ UNCHANGED sessions
                   ELSE /\ sessions' = [sessions EXCEPT ![t] =
                                          [userId |-> userId, username |-> username]]
                        /\ resp' = [Response("POST /login", t, 0, "redirect /home", "")
                                      EXCEPT !.username = username,
                                             !.db = IF create THEN {"User.create"} ELSE {}]
    /\ UNCHANGED <<Quotes, nextQuoteId, now, creator, loggedOut>>

\* app.get('/logout')
Logout(t) ==
    /\ sessions' = [sessions EXCEPT ![t] = NoSession]
    /\ loggedOut' = [loggedOut EXCEPT ![t] = TRUE]
    /\ resp' = Response("GET /logout", t, 0, "redirect /", "")
    /\ UNCHANGED <<Users, Quotes, nextQuoteId, now, login, creator>>

\* app.get('/home')
Home(t) ==
    IF ~requireLogin(t)
    THEN Redirected("GET /home", t, 0)
    ELSE /\ \E quotes \in OrderedDesc(QuoteFindAll(sessions[t].userId)) :
                resp' = [Response("GET /home", t, 0, "render home", "")
                           EXCEPT !.quotes = quotes, !.db = {"Quote.findAll"}]
         /\ UNCHANGED <<Users, Quotes, nextQuoteId, now, sessions, login, creator, loggedOut>>

\* app.get('/add-quote')
AddQuoteForm(t) ==
    IF ~requireLogin(t)
    THEN Redirected("GET /add-quote", t, 0)
    ELSE /\ resp' = Response("GET /add-quote", t, 0, "render add-quote", "")
         /\ UNCHANGED <<Users, Quotes, nextQuoteId, now, sessions, login, creator, loggedOut>>

\* app.post('/add-quote'); tick: whether the clock has advanced since the
\* last new Date()
AddQuote(t, body, tick) ==
    IF ~requireLogin(t)
    THEN Redirected("POST /add-quote", t, 0)
    ELSE /\ now' = IF CreateRejected(body) THEN now ELSE now + tick
         /\ Quotes' = QuoteCreate([id |-> nextQuoteId,
                                   quoteText |-> body.quoteText,
                                   personName |-> body.personName,
                                   location |-> OrNull(body.location),
                                   date |-> OrNull(body.date),
                                   UserId |-> sessions[t].userId,
                                   createdAt |-> now'], body)
         /\ nextQuoteId' = IF CreateRejected(body) THEN nextQuoteId ELSE nextQuoteId + 1
         /\ creator' = IF CreateRejected(body) THEN creator
                       ELSE Append(creator, sessions[t].userId)
         /\ resp' = IF CreateRejected(body)
                    THEN [Response("POST /add-quote", t, 0, "500", "Error adding quote")
                            EXCEPT !.body = body, !.db = {"Quote.create"}]
                    ELSE [Response("POST /add-quote", t, 0, "redirect /home", "")
                            EXCEPT !.body = body, !.db = {"Quote.create"}]
         /\ UNCHANGED <<Users, sessions, login, loggedOut>>

\* app.post('/quotes/:id/delete')
DeleteQuote(t, id) ==
    IF ~requireLogin(t)
    THEN Redirected("POST /quotes/:id/delete", t, id)
    ELSE /\ Quotes' = Quotes \ Owned(id, sessions[t].userId)
         /\ resp' = [Response("POST /quotes/:id/delete", t, id, "redirect /home", "")
                       EXCEPT !.db = {"Quote.destroy"}]
         /\ UNCHANGED <<Users, nextQuoteId, now, sessions, login, creator, loggedOut>>

\* app.get('/quotes/:id/edit')
EditQuoteForm(t, id) ==
    IF ~requireLogin(t)
    THEN Redirected("GET /quotes/:id/edit", t, id)
    ELSE /\ resp' = IF Owned(id, sessions[t].userId) = {}
                    THEN [Response("GET /quotes/:id/edit", t, id, "404", "Quote not found")
                            EXCEPT !.db = {"Quote.findOne"}]
                    ELSE [Response("GET /quotes/:id/edit", t, id, "render edit-quote", "")
                            EXCEPT !.quotes = <<CHOOSE q \in Owned(id, sessions[t].userId) : TRUE>>,
                                   !.db = {"Quote.findOne"}]
         /\ UNCHANGED <<Users, Quotes, nextQuoteId, now, sessions, login, creator, loggedOut>>

\* Faulty variant: the update also writes UserId, which the body does not carry.
QuoteUpdate_Reown(q, body) ==
    [q EXCEPT !.quoteText = IF body.quoteText = Absent THEN @ ELSE body.quoteText,
              !.personName = IF body.personName = Absent THEN @ ELSE body.personName,
              !.location = OrNull(body.location),
              !.date = OrNull(body.date),
              !.UserId = 0]

\* Quote.update(values, { where }): undefined values are dropped, the others
\* are validated and then written to the rows the where clause selects.
QuoteUpdate(q, body) ==
    [q EXCEPT !.quoteText = IF body.quoteText = Absent THEN @ ELSE body.quoteText,
              !.personName = IF body.personName = Absent THEN @ ELSE body.personName,
              !.location = OrNull(body.location),
              !.date = OrNull(body.date)]

\* app.post('/quotes/:id/edit')
EditQuote(t, id, body) ==
    IF ~requireLogin(t)
    THEN Redirected("POST /quotes/:id/edit", t, id)
    ELSE IF UpdateRejected(body)
    THEN /\ resp' = [Response("POST /quotes/:id/edit", t, id, "500", "Error updating quote")
                       EXCEPT !.body = body, !.db = {"Quote.update"}]
         /\ UNCHANGED <<Users, Quotes, nextQuoteId, now, sessions, login, creator, loggedOut>>
    ELSE /\ Quotes' = {IF q \in Owned(id, sessions[t].userId) THEN QuoteUpdate(q, body) ELSE q
                         : q \in Quotes}
         /\ resp' = [Response("POST /quotes/:id/edit", t, id, "redirect /home", "")
                       EXCEPT !.body = body, !.db = {"Quote.update"}]
         /\ UNCHANGED <<Users, nextQuoteId, now, sessions, login, creator, loggedOut>>

\* app.get('/stats')
Stats(t) ==
    IF ~requireLogin(t)
    THEN Redirected("GET /stats", t, 0)
    ELSE /\ resp' = [Response("GET /stats", t, 0, "render stats", "")
                       EXCEPT !.quotesJSON = Stringify(QuoteFindAll(sessions[t].userId)),
                              !.db = {"Quote.findAll"}]
         /\ UNCHANGED <<Users, Quotes, nextQuoteId, now, sessions, login, creator, loggedOut>>

\* app.get('/game')
Game(t) ==
    IF ~requireLogin(t)
    THEN Redirected("GET /game", t, 0)
    ELSE /\ LET quotes == QuoteFindAll(sessions[t].userId)
             IN resp' = IF NotEnough(quotes)
                        THEN [Response("GET /game", t, 0, "render game", "")
                                EXCEPT !.error = "You need at least 2 quotes to play the game!",
                                       !.db = {"Quote.findAll"}]
                        ELSE [Response("GET /game", t, 0, "render game", "")
                                EXCEPT !.quotesJSON = Stringify(quotes),
                                       !.db = {"Quote.findAll"}]
         /\ UNCHANGED <<Users, Quotes, nextQuoteId, now, sessions, login, creator, loggedOut>>

\* One request step, with the requests drawn from the given sets; max bounds
\* the rows ever inserted.
Step(toks, names, errs, bodies, ticks, max) ==
    \E t \in toks :
        \/ Landing(t)
        \/ \E u \in names : LoginFind(t, u)
        \/ \E err \in errs : LoginFinish(t, err)
        \/ Logout(t)
        \/ Home(t)
        \/ AddQuoteForm(t)
        \/ \E body \in bodies, tick \in ticks :
              (nextQuoteId <= max \/ CreateRejected(body)) /\ AddQuote(t, body, tick)
        \/ \E id \in Ids(max) : DeleteQuote(t, id)
        \/ \E id \in Ids(max) : EditQuoteForm(t, id)
        \/ \E id \in Ids(max), body \in bodies : EditQuote(t, id, body)
        \/ Stats(t)
        \/ Game(t)

\* Sessions: two cookies, logins that overlap and fail, one valid and one
\* rejected body.
Next ==
    Step(Tokens, Usernames \cup {Absent}, BOOLEAN,
         {Body("Hi", "Bob", "NYC", "May"), Body(Null, "Bob", "NYC", "May")},
         {1}, MaxQuotes)

Spec == Init /\ [][Next]_vars

\* Listings: one cookie that logs in as either user, two valid bodies, a
\* clock that may stand still between two insertions.
NextQuotes ==
    Step({"s1"}, Usernames, BOOLEAN,
         {Body("Hi", "Bob", "NYC", "May"), Body("Hi!", "Bob", "", Absent)},
         {0, 1}, MaxListed)

SpecQuotes == Init /\ [][NextQuotes]_vars

\* Bodies: one cookie that logs in as either user, every body.
NextBodies == Step({"s1"}, Usernames, BOOLEAN, Bodies, {1}, MaxQuotes)

SpecBodies == Init /\ [][NextBodies]_vars

\* ================================================================ claims
Protected ==
    {"GET /home", "GET /add-quote", "POST /add-quote", "GET /quotes/:id/edit",
     "POST /quotes/:id/edit", "POST /quotes/:id/delete", "GET /stats", "GET /game"}

\* The quote rows a response hands to its view.
Returned(r) == {r.quotes[i] : i \in 1..Len(r.quotes)} \cup r.quotesJSON

\* C1: the rows GET /home, GET /stats and GET /game return to a session are
\* owned by the session's current userId, and were created under a session of
\* that user.
C1_Isolation ==
    resp.route \in {"GET /home", "GET /stats", "GET /game"} =>
        \A q \in Returned(resp) :
            /\ q.UserId = sessions[resp.tok].userId
            /\ creator[q.id] = sessions[resp.tok].userId

C1_Witness ==
    /\ resp.route \in {"GET /home", "GET /stats", "GET /game"}
    /\ Returned(resp) # {}
    /\ \E q \in Quotes : q.UserId # sessions[resp.tok].userId

\* The step is a POST edit or delete of a logged-in session for an id that
\* names no row or a row of another user.
ForeignOrMissing ==
    /\ resp'.route \in {"POST /quotes/:id/edit", "POST /quotes/:id/delete"}
    /\ sessions[resp'.tok].userId # 0
    /\ ~ \E q \in Quotes : q.id = resp'.id /\ q.UserId = sessions[resp'.tok].userId

Empty(v) == v \in {"", Null, Absent}

\* C4: POST /add-quote of a logged-in session with an empty quoteText or
\* personName answers 500 and leaves the quotes table unchanged.
C4_EmptyRejected ==
    [][(/\ resp'.route = "POST /add-quote"
        /\ sessions[resp'.tok].userId # 0
        /\ (Empty(resp'.body.quoteText) \/ Empty(resp'.body.personName))) =>
          (resp'.status = "500" /\ Quotes' = Quotes)]_vars

\* C5: after GET /logout for a cookie, and until a new POST /login is issued
\* with it, a protected route answers that cookie with the redirect to / and
\* reads nothing.
C5_LogoutInvalidates ==
    (resp.route \in Protected /\ loggedOut[resp.tok]) =>
        (resp.status = "redirect /" /\ resp.db = {})

\* C6: a protected route answers a session without userId with the redirect
\* to / and makes no persistence call; the tables are unchanged.
C6_Guard ==
    [][(resp'.route \in Protected /\ sessions[resp'.tok].userId = 0) =>
          /\ resp'.status = "redirect /"
          /\ resp'.db = {}
          /\ Returned(resp') = {}
          /\ Users' = Users
          /\ Quotes' = Quotes]_vars

C6_Witness ==
    /\ resp.route = "POST /quotes/:id/delete"
    /\ resp.status = "redirect /"
    /\ sessions[resp.tok].userId = 0
    /\ \E q \in Quotes : q.id = resp.id

\* C7: GET /game renders the error and no quote exactly when the session's
\* user owns fewer than two rows, and all the rows of the user otherwise.
C7_Game ==
    (resp.route = "GET /game" /\ sessions[resp.tok].userId # 0) =>
        LET own == {q \in Quotes : q.UserId = sessions[resp.tok].userId}
        IN  /\ resp.status = "render game"
            /\ IF Cardinality(own) < 2
               THEN resp.error # "" /\ Returned(resp) = {}
               ELSE resp.error = "" /\ resp.quotesJSON = own

\* The table holds two rows, the user one of them.
C7_Witness ==
    /\ resp.route = "GET /game"
    /\ resp.error # ""
    /\ Cardinality(Quotes) >= 2
    /\ \E q \in Quotes : q.UserId = sessions[resp.tok].userId

\* C8 as stated: in the listing of GET /home the quote whose add-quote
\* request completed later (the higher id) comes first.
C8_Original ==
    resp.route = "GET /home" =>
        \A i, j \in 1..Len(resp.quotes) :
            i < j => resp.quotes[i].id > resp.quotes[j].id

\* C8 as amended: the listing holds the rows of the user, each once, in
\* descending order of createdAt: of two quotes the one with the later
\* createdAt comes first, and two with the same createdAt come in either
\* order; an edit changes no createdAt.
C8_Amended ==
    /\ [](resp.route = "GET /home" =>
            /\ Returned(resp) = {q \in Quotes : q.UserId = sessions[resp.tok].userId}
            /\ Len(resp.quotes) = Cardinality(Returned(resp))
            /\ \A i, j \in 1..Len(resp.quotes) :
                  i < j => resp.quotes[i].createdAt >= resp.quotes[j].createdAt)
    /\ [][\A q \in Quotes, r \in Quotes' :
             q.id = r.id => r.createdAt = q.createdAt]_vars

\* Two quotes of one user, the first edited after the second was added.
C8_Witness ==
    /\ resp.route = "GET /home"
    /\ Len(resp.quotes) = 2
    /\ resp.quotes[1].createdAt > resp.quotes[2].createdAt
    /\ resp.quotes[2].quoteText = "Hi!"
    /\ resp.quotes[1].quoteText = "Hi"

\* C9 as stated: a request answered with status 500 has changed no table.
C9_Original ==
    [][resp'.status = "500" => (Users' = Users /\ Quotes' = Quotes)]_vars

\* C9 as amended: a request answered with status 500 has changed no row of
\* Quotes, and no row of Users unless it is a POST /login for a new username
\* whose session save failed: that one has created the User row.
C9_Amended ==
    [][resp'.status = "500" =>
          /\ Quotes' = Quotes
          /\ Users' =
                IF /\ resp'.route = "POST /login"
                   /\ resp'.send = "Session error"
                   /\ ~ \E i \in 1..Len(Users) : Users[i] = resp'.username
                THEN Append(Users, resp'.username)
                ELSE Users]_vars

\* A login for a second new username whose session save failed.
C9_Witness ==
    /\ resp.status = "500"
    /\ resp.send = "Session error"
    /\ resp.db = {"User.create"}
    /\ Len(Users) = 2
    /\ Quotes # {}

\* C10: the owner of a row is the userId of the session that created it, the
\* id of a User row, and no step changes it.
C10_Owner ==
    /\ [](\A q \in Quotes :
            /\ q.UserId = creator[q.id]
            /\ q.UserId \in 1..Len(Users))
    /\ [][\A q \in Quotes, r \in Quotes' : q.id = r.id => r.UserId = q.UserId]_vars

\* A user has edited an own row while the other user's row exists.
C10_Witness ==
    /\ resp.route = "POST /quotes/:id/edit"
    /\ resp.status = "redirect /home"
    /\ \E q \in Quotes : /\ q.id = resp.id
                         /\ q.UserId = sessions[resp.tok].userId
                         /\ q.quoteText = "Hi!"
    /\ \E q \in Quotes : q.UserId # sessions[resp.tok].userId
====
